---------------------------- MODULE Spec2Model ----------------------------
(***************************************************************************)
(* Model of src/seq_read_bench.cpp: a sequential-read benchmark.  main()   *)
(* opens benchmark_results.csv (truncating), writes a CSV header, calls    *)
(* benchmark_chunk_size() for each chunk size of the sweep, and closes the *)
(* results file.  benchmark_chunk_size() allocates a buffer and performs a *)
(* fixed number of runs; a run opens test_file.bin, reads FILE_SIZE bytes  *)
(* in requests of at most chunk_size bytes, closes the file, checks that   *)
(* FILE_SIZE bytes were read and writes one CSV row.                       *)
(*                                                                         *)
(* The program is single-threaded: pc is the position of the one thread.   *)
(* Every system call is an environment choice (success, failure, short     *)
(* read, short write).  The byte sizes of the source are scaled down so    *)
(* that the state space is finite and small; the scaled definitions keep   *)
(* the source's names.  A file is a sequence of tokens: a CSV field is one *)
(* token and the line terminator is the token NL.  The two timing fields   *)
(* of a row are clock measurements and are kept as opaque tokens.          *)
(***************************************************************************)
EXTENDS Integers, Sequences, FiniteSets, TLC

(* ------------------------------ sizes ---------------------------------- *)
\* seq_read_bench.cpp:10  #define FILE_SIZE (1024 * 1024 * 64), scaled
FILE_SIZE == 7
\* seq_read_bench.cpp:11  #define SMALL_CHUNK 100, scaled
SMALL_CHUNK == 1
\* seq_read_bench.cpp:12  #define MEDIUM_CHUNK 1024, scaled
MEDIUM_CHUNK == 2
\* seq_read_bench.cpp:13  #define INCREMENTAL 8192, scaled
INCREMENTAL == 3
\* seq_read_bench.cpp:14  #define INCREMENTAL_START 8192, scaled
INCREMENTAL_START == 3
\* seq_read_bench.cpp:15  #define LARGEST_CHUNK (256 * 1024), scaled
LARGEST_CHUNK == 6
\* seq_read_bench.cpp:46  run < 30, scaled
Reps == 3
\* how far the size of test_file.bin may differ from FILE_SIZE
SizeSlack == 1

\* largest value of the C int that holds incremental_chunk_size and
\* total_read
INT_MAX == 2147483647

(* the sizes of the source, unscaled: main's sweep variable is an int and *)
(* its values depend on these alone                                       *)
\* seq_read_bench.cpp:10
FILE_SIZE_BYTES == 1024 * 1024 * 64
\* seq_read_bench.cpp:13
INCREMENTAL_BYTES == 8192
\* seq_read_bench.cpp:14
INCREMENTAL_START_BYTES == 8192
\* seq_read_bench.cpp:15
LARGEST_CHUNK_BYTES == 256 * 1024

(* ------------------------------ tokens --------------------------------- *)
\* '\n', the last byte of the header and of every row
NL == 0
\* the formatted read_time_ms field of a row ({:.3f} of a clock difference)
TIME_FIELD == -5
\* the formatted throughput_mbps field of a row
TPUT_FIELD == -6

\* seq_read_bench.cpp:110  "chunk_size,run_number,read_time_ms,throughput_mbps\n"
header == <<-1, -2, -3, -4, NL>>

\* seq_read_bench.cpp:25-30  std::format("{},{},{:.3f},{:.3f}\n", ...)
FormatRow(c, r) == <<c, r, TIME_FIELD, TPUT_FIELD, NL>>

(* ------------------------------ helpers -------------------------------- *)
Max(a, b) == IF a > b THEN a ELSE b
Min(a, b) == IF a < b THEN a ELSE b

Take(s, n) == SubSeq(s, 1, n)

\* C int arithmetic, a + b with b >= 0: the sum when it fits; a signed
\* overflow is undefined, so any int may result
AddOverflows(a, b) == a > INT_MAX - b
IntAdd(a, b) == IF AddOverflows(a, b) THEN {-INT_MAX - 1, 0, INT_MAX}
                                      ELSE {a + b}

\* seq_read_bench.cpp:130-132: the values incremental_chunk_size takes in
\* the body of main's for loop, from c on, with the sizes of the source;
\* -1 marks an increment that overflows
RECURSIVE IncrementalSweep(_)
IncrementalSweep(c) ==
    IF c <= LARGEST_CHUNK_BYTES
    THEN <<c>> \o (IF AddOverflows(c, INCREMENTAL_BYTES)
                   THEN <<-1>>
                   ELSE IncrementalSweep(c + INCREMENTAL_BYTES))
    ELSE <<>>

\* write(2) on a descriptor without O_APPEND: the bytes land at the
\* descriptor's offset, over whatever the file holds there
WriteAt(file, off, bytes) ==
    [i \in 1..Max(Len(file), off + Len(bytes)) |->
        IF i > off /\ i <= off + Len(bytes) THEN bytes[i - off] ELSE file[i]]

\* open(2) with O_TRUNC keeps the old content
OpenKeepsContent(file) == file
\* seq_read_bench.cpp:103  O_WRONLY | O_CREAT | O_TRUNC: the file is emptied
OpenTruncates(file) == <<>>

\* to_read without the clamp to the bytes still wanted
ToReadUnclamped(chunk, total) == chunk
\* seq_read_bench.cpp:64-65
ToRead(chunk, total) ==
    IF FILE_SIZE - total > chunk THEN chunk ELSE FILE_SIZE - total

\* a loop that stops on errors only
ReadBreaksOnErrorOnly(r) == r < 0
\* seq_read_bench.cpp:68  if (bytes_read <= 0) break;
ReadBreaks(r) == r <= 0

\* a check that accepts a run that read something
IncompleteOnlyIfEmpty(total) == total = 0
\* a check that only rejects a run that read too much
IncompleteOnlyIfOver(total) == total > FILE_SIZE
\* seq_read_bench.cpp:83  if (total_read != FILE_SIZE)
IncompleteRead(total) == total # FILE_SIZE

\* a check that lets a short write pass
WriteFailedOnErrorOnly(w, len) == w < 0
\* seq_read_bench.cpp:33 and :112  written != size
WriteFailed(w, len) == w # len

\* a zero-based run number
RunNumberZeroBased(r) == r
\* seq_read_bench.cpp:94  run + 1
RunNumber(r) == r + 1

\* a main that ignores the result of the last close
MainReturnIgnoresClose(closeOk) == 0
\* seq_read_bench.cpp:138-144
MainReturn(closeOk) == IF closeOk THEN 0 ELSE 1

(* what read(2) may return for a request of n bytes at offset off of a     *)
(* file of size bytes: an error, 0 at end of file, or 1..n bytes that the  *)
(* file has (a short read is allowed)                                      *)
ReadResults(n, off, size) ==
    {-1} \cup (IF off >= size THEN {0} ELSE 1..Min(n, size - off))

(* what write(2) may return for len bytes: an error, or 0..len written     *)
WriteResults(len) == -1..len

(* ------------------------------ state ---------------------------------- *)
VARIABLES
    pc,                     \* position of the thread
    exit_status,            \* -1 while running, else the process status
    csv,                    \* content of benchmark_results.csv on disk
    data_off,               \* file offset of data_fd
    data_opens,             \* successful opens of the results file
    data_closes,            \* close calls on data_fd
    phase,                  \* which call of main is in progress
    incremental_chunk_size, \* main's sweep variable
    chunk_size,             \* parameter of benchmark_chunk_size
    buffer,                 \* TRUE while the chunk buffer is allocated
    run,                    \* loop variable of benchmark_chunk_size
    open_test_fds,          \* test descriptors opened and not yet closed
    total_read,             \* bytes read so far in the run
    to_read,                \* size of the last read request
    reads_in_run,           \* read calls issued in the run
    written,                \* return value of the last write
    fileSize,               \* size of test_file.bin
    op,                     \* operation performed by the last step
    failedOp,               \* first operation that failed, or "none"
    did,                    \* operations issued so far
    invocation,             \* 1 or 2: which run of the tool this is
    first_csv               \* what the first run of the tool left on disk

vars == <<pc, exit_status, csv, data_off, data_opens, data_closes, phase,
          incremental_chunk_size, chunk_size, buffer, run, open_test_fds,
          total_read, to_read, reads_in_run, written, fileSize, op,
          failedOp, did, invocation, first_csv>>

\* the process's own state, everything but the disk and the invocation
mainVars == <<phase, incremental_chunk_size>>
runVars == <<chunk_size, buffer, run>>
readVars == <<total_read, to_read, reads_in_run>>
dataVars == <<csv, data_off, data_opens, data_closes, written>>
toolVars == <<invocation, first_csv>>

FileSizes == (FILE_SIZE - SizeSlack)..(FILE_SIZE + SizeSlack) \cup {0}

\* what benchmark_results.csv may hold before the tool starts: nothing, or
\* the output of some earlier tool
PriorContents == {<<>>, <<9, 9, NL, 9, 9, 9, 9, 9, 9, 9, 9, NL>>}

ProcessStart ==
    /\ pc = "open_data"
    /\ exit_status = -1
    /\ data_off = 0
    /\ data_opens = 0
    /\ data_closes = 0
    /\ phase = "start"
    /\ incremental_chunk_size = 0
    /\ chunk_size = 0
    /\ buffer = FALSE
    /\ run = 0
    /\ open_test_fds = 0
    /\ total_read = 0
    /\ to_read = 0
    /\ reads_in_run = 0
    /\ written = 0
    /\ op = "none"
    /\ failedOp = "none"
    /\ did = {}

Init ==
    /\ ProcessStart
    /\ csv \in PriorContents
    /\ fileSize \in FileSizes
    /\ invocation = 1
    /\ first_csv = <<>>

(* ------------------------------ steps ---------------------------------- *)
Issue(o) == /\ op' = o
            /\ did' = did \cup {o}

Fail(o) == failedOp' = IF failedOp = "none" THEN o ELSE failedOp

Exit(code) == /\ pc' = "exit"
              /\ exit_status' = code

\* a main that goes on to the header after a failed open
OpenResultsUnchecked ==
    /\ pc = "open_data"
    /\ Issue("open_data")
    /\ \E ok \in BOOLEAN :
         IF ok
         THEN /\ csv' = OpenTruncates(csv)
              /\ data_opens' = data_opens + 1
              /\ UNCHANGED failedOp
         ELSE /\ Fail("open_data")
              /\ UNCHANGED <<csv, data_opens>>
    /\ data_off' = 0
    /\ pc' = "write_header"
    /\ UNCHANGED <<exit_status, data_closes, written, mainVars, runVars,
                   open_test_fds, readVars, fileSize, toolVars>>
\* seq_read_bench.cpp:103-107
OpenResults ==
    /\ pc = "open_data"
    /\ Issue("open_data")
    /\ \E ok \in BOOLEAN :
         IF ok
         THEN /\ csv' = OpenTruncates(csv)
              /\ data_off' = 0
              /\ data_opens' = data_opens + 1
              /\ pc' = "write_header"
              /\ UNCHANGED <<exit_status, failedOp>>
         ELSE /\ Fail("open_data")
              /\ Exit(1)
              /\ UNCHANGED <<csv, data_off, data_opens>>
    /\ UNCHANGED <<data_closes, written, mainVars, runVars, open_test_fds,
                   readVars, fileSize, toolVars>>

\* seq_read_bench.cpp:110-122: the header write, then the first call
WriteHeader ==
    /\ pc = "write_header"
    /\ Issue("write_header")
    /\ \E w \in WriteResults(Len(header)) :
         /\ written' = w
         /\ csv' = WriteAt(csv, data_off, Take(header, Max(w, 0)))
         /\ data_off' = data_off + Max(w, 0)
         /\ IF WriteFailed(w, Len(header))
            THEN /\ Fail("write_header")
                 /\ data_closes' = data_closes + 1
                 /\ Exit(1)
                 /\ UNCHANGED <<phase, chunk_size>>
            ELSE /\ phase' = "small"
                 /\ chunk_size' = SMALL_CHUNK
                 /\ pc' = "malloc"
                 /\ UNCHANGED <<exit_status, failedOp, data_closes>>
    /\ UNCHANGED <<data_opens, incremental_chunk_size, buffer, run,
                   open_test_fds, readVars, fileSize, toolVars>>

\* seq_read_bench.cpp:40-46
Malloc ==
    /\ pc = "malloc"
    /\ Issue("malloc")
    /\ \E ok \in BOOLEAN :
         IF ok
         THEN /\ buffer' = TRUE
              /\ run' = 0
              /\ pc' = "run_loop"
              /\ UNCHANGED <<exit_status, failedOp>>
         ELSE /\ Fail("malloc")
              /\ Exit(1)
              /\ UNCHANGED <<buffer, run>>
    /\ UNCHANGED <<dataVars, mainVars, chunk_size, open_test_fds, readVars,
                   fileSize, toolVars>>

\* seq_read_bench.cpp:46-60: one more run: open the test file
OpenTest ==
    /\ pc = "run_loop"
    /\ run < Reps
    /\ Issue("open_test")
    /\ \E ok \in BOOLEAN :
         IF ok
         THEN /\ open_test_fds' = open_test_fds + 1
              /\ total_read' = 0
              /\ reads_in_run' = 0
              /\ pc' = "read"
              /\ UNCHANGED <<exit_status, failedOp, buffer>>
         ELSE /\ Fail("open_test")
              /\ buffer' = FALSE
              /\ Exit(1)
              /\ UNCHANGED <<open_test_fds, total_read, reads_in_run>>
    /\ UNCHANGED <<dataVars, mainVars, chunk_size, run, to_read, fileSize,
                   toolVars>>

\* seq_read_bench.cpp:63-70: one iteration of the read loop
Read ==
    /\ pc = "read"
    /\ Issue("read")
    /\ LET n == ToRead(chunk_size, total_read) IN
       /\ to_read' = n
       /\ reads_in_run' = reads_in_run + 1
       /\ \E r \in ReadResults(n, total_read, fileSize) :
            IF ReadBreaks(r)
            THEN /\ Fail("read")
                 /\ pc' = "close_test"
                 /\ UNCHANGED total_read
            ELSE /\ total_read' \in IntAdd(total_read, r)
                 /\ pc' = IF total_read' < FILE_SIZE THEN "read"
                                                     ELSE "close_test"
                 /\ UNCHANGED failedOp
    /\ UNCHANGED <<exit_status, dataVars, mainVars, runVars, open_test_fds,
                   fileSize, toolVars>>

\* the run goes on to its check without closing the descriptor
CloseTestSkipped ==
    /\ pc = "close_test"
    /\ Issue("close_test")
    /\ pc' = "check_total"
    /\ UNCHANGED <<exit_status, failedOp, open_test_fds>>
    /\ UNCHANGED <<dataVars, mainVars, runVars, readVars, fileSize,
                   toolVars>>
\* seq_read_bench.cpp:76-79
CloseTest ==
    /\ pc = "close_test"
    /\ Issue("close_test")
    /\ open_test_fds' = open_test_fds - 1
    /\ \E ok \in BOOLEAN :
         IF ok
         THEN /\ pc' = "check_total"
              /\ UNCHANGED <<exit_status, failedOp>>
         ELSE /\ Fail("close_test")
              /\ Exit(1)
    /\ UNCHANGED <<dataVars, mainVars, runVars, readVars, fileSize,
                   toolVars>>

\* seq_read_bench.cpp:83-87
CheckTotal ==
    /\ pc = "check_total"
    /\ op' = "check"
    /\ IF IncompleteRead(total_read)
       THEN /\ buffer' = FALSE
            /\ Exit(1)
       ELSE /\ pc' = "write_result"
            /\ UNCHANGED <<exit_status, buffer>>
    /\ UNCHANGED <<dataVars, mainVars, chunk_size, run, open_test_fds,
                   readVars, fileSize, failedOp, did, toolVars>>

\* seq_read_bench.cpp:90-96 and 24-37
WriteResult ==
    /\ pc = "write_result"
    /\ Issue("write_row")
    /\ LET row == FormatRow(chunk_size, RunNumber(run)) IN
       \E w \in WriteResults(Len(row)) :
         /\ written' = w
         /\ csv' = WriteAt(csv, data_off, Take(row, Max(w, 0)))
         /\ data_off' = data_off + Max(w, 0)
         /\ IF WriteFailed(w, Len(row))
            THEN /\ Fail("write_row")
                 /\ Exit(1)
                 /\ UNCHANGED run
            ELSE /\ run' = run + 1
                 /\ pc' = "run_loop"
                 /\ UNCHANGED <<exit_status, failedOp>>
    /\ UNCHANGED <<data_opens, data_closes, mainVars, chunk_size, buffer,
                   open_test_fds, readVars, fileSize, toolVars>>

\* the call main makes next, or the end of the sweep
CallOrFinish(next) ==
    IF next <= LARGEST_CHUNK
    THEN /\ chunk_size' = next
         /\ pc' = "malloc"
    ELSE /\ pc' = "close_data"
         /\ UNCHANGED chunk_size

\* seq_read_bench.cpp:98-99 and 122-135: the runs are done: free the
\* buffer, return to main, and go on to main's next call
ReturnToMain ==
    /\ pc = "run_loop"
    /\ run >= Reps
    /\ op' = "return"
    /\ buffer' = FALSE
    /\ run' = 0
    /\ CASE phase = "small" ->
              /\ phase' = "medium"
              /\ chunk_size' = MEDIUM_CHUNK
              /\ pc' = "malloc"
              /\ UNCHANGED incremental_chunk_size
         [] phase = "medium" ->
              /\ phase' = "incremental"
              /\ incremental_chunk_size' = INCREMENTAL_START
              /\ CallOrFinish(incremental_chunk_size')
         [] OTHER ->
              /\ incremental_chunk_size' \in
                     IntAdd(incremental_chunk_size, INCREMENTAL)
              /\ CallOrFinish(incremental_chunk_size')
              /\ UNCHANGED phase
    /\ UNCHANGED <<exit_status, dataVars, open_test_fds, readVars,
                   fileSize, failedOp, did, toolVars>>

\* seq_read_bench.cpp:138-144
CloseResults ==
    /\ pc = "close_data"
    /\ Issue("close_data")
    /\ data_closes' = data_closes + 1
    /\ \E ok \in BOOLEAN :
         /\ Exit(MainReturn(ok))
         /\ IF ok THEN UNCHANGED failedOp ELSE Fail("close_data")
    /\ UNCHANGED <<csv, data_off, data_opens, written, mainVars, runVars,
                   open_test_fds, readVars, fileSize, toolVars>>

Next ==
    \/ OpenResults
    \/ WriteHeader
    \/ Malloc
    \/ OpenTest
    \/ Read
    \/ CloseTest
    \/ CheckTotal
    \/ WriteResult
    \/ ReturnToMain
    \/ CloseResults

Spec == Init /\ [][Next]_vars

\* every system call returns, and the thread then takes its next step
FairSpec == Init /\ [][Next]_vars /\ WF_vars(Next)

(* The tool is started a second time after the first process has ended:   *)
(* the new process starts from main with fresh memory; the disk keeps     *)
(* benchmark_results.csv and test_file.bin.                               *)
Rerun ==
    /\ pc = "exit"
    /\ invocation = 1
    /\ invocation' = 2
    /\ first_csv' = csv
    /\ pc' = "open_data"
    /\ exit_status' = -1
    /\ data_off' = 0
    /\ data_opens' = 0
    /\ data_closes' = 0
    /\ phase' = "start"
    /\ incremental_chunk_size' = 0
    /\ chunk_size' = 0
    /\ buffer' = FALSE
    /\ run' = 0
    /\ open_test_fds' = 0
    /\ total_read' = 0
    /\ to_read' = 0
    /\ reads_in_run' = 0
    /\ written' = 0
    /\ op' = "none"
    /\ failedOp' = "none"
    /\ did' = {}
    /\ UNCHANGED <<csv, fileSize>>

NextTwice == Next \/ Rerun

SpecTwice == Init /\ [][NextTwice]_vars


(* ====================== what the claims speak of ======================= *)

\* the lines of a file: each complete line with its NL, then the
\* unterminated rest, if any
RECURSIVE CsvLines(_)
CsvLines(s) ==
    IF s = <<>> THEN <<>>
    ELSE LET k == CHOOSE k \in 1..Len(s) :
                     /\ s[k] = NL \/ k = Len(s)
                     /\ \A j \in 1..(k - 1) : s[j] # NL
         IN <<SubSeq(s, 1, k)>> \o CsvLines(SubSeq(s, k + 1, Len(s)))

CompleteLine(l) == l # <<>> /\ l[Len(l)] = NL

\* the sweep as the claims state it: small, medium, then from
\* INCREMENTAL_START to LARGEST_CHUNK in steps of INCREMENTAL
NIncremental ==
    IF LARGEST_CHUNK < INCREMENTAL_START THEN 0
    ELSE ((LARGEST_CHUNK - INCREMENTAL_START) \div INCREMENTAL) + 1

SweepSeq ==
    <<SMALL_CHUNK, MEDIUM_CHUNK>> \o
    [i \in 1..NIncremental |-> INCREMENTAL_START + (i - 1) * INCREMENTAL]

\* the k-th data row of a full sweep: Reps rows per chunk size, numbered
\* from 1 within each group
ExpectedRow(k) ==
    <<SweepSeq[((k - 1) \div Reps) + 1], ((k - 1) % Reps) + 1,
      TIME_FIELD, TPUT_FIELD, NL>>

\* the header line and the first n data rows
ExpectedLines(n) == <<header>> \o [k \in 1..n |-> ExpectedRow(k)]

TotalRuns == Len(SweepSeq) * Reps

\* the chunk-size group main is in, counted from 1
GroupIndex ==
    CASE phase = "start" -> 1
      [] phase = "small" -> 1
      [] phase = "medium" -> 2
      [] OTHER -> 3 + ((incremental_chunk_size - INCREMENTAL_START)
                           \div INCREMENTAL)

\* runs whose row has been written in full
CompletedRuns == (GroupIndex - 1) * Reps + run

Exited == pc = "exit"

\* the line a failed write was writing, cut to the bytes that write took
PartialOf(line) == Take(line, Max(written, 0))

\* the results file holds the header and one complete line per completed run
CsvIsComplete == CsvLines(csv) = ExpectedLines(CompletedRuns)

\* the same, but for the one line a fatal short write has cut
CsvIsCutByFailedWrite ==
    /\ Exited
    /\ exit_status = 1
    /\ \/ /\ failedOp = "write_header"
          /\ written < Len(header)
          /\ csv = PartialOf(header)
       \/ /\ failedOp = "write_row"
          /\ written < Len(FormatRow(chunk_size, run + 1))
          /\ CsvLines(csv) = ExpectedLines(CompletedRuns) \o
                 (IF written > 0
                  THEN <<PartialOf(FormatRow(chunk_size, run + 1))>>
                  ELSE <<>>)

(* ------------------------------- C1 ------------------------------------ *)
\* C1: when no operation failed (so the test file supplied FILE_SIZE bytes
\* to every run) and the process has ended, the lines of the results file
\* are the header and then, for each chunk size of the sweep in order,
\* Reps rows with that chunk size and run numbers 1, 2, ..., Reps.
C1_FullSweepRows ==
    (Exited /\ failedOp = "none") =>
        /\ CsvLines(csv) = ExpectedLines(TotalRuns)
        /\ \A k \in 1..TotalRuns :
             /\ CsvLines(csv)[k + 1][1] = SweepSeq[((k - 1) \div Reps) + 1]
             /\ CsvLines(csv)[k + 1][2] = ((k - 1) % Reps) + 1

\* a full sweep has ended without any failure, after short reads too
C1_Witness ==
    /\ Exited
    /\ failedOp = "none"
    /\ exit_status = 0
    /\ Len(CsvLines(csv)) = TotalRuns + 1
    /\ reads_in_run > 1

(* ------------------------------- C7 ------------------------------------ *)
\* C7 as stated: in every state after the results file was opened, also
\* after write failures and fatal exits, the file holds only complete
\* lines: nothing yet, or the header line and exactly one line per
\* completed run in run order; it is opened and closed at most once.
C7_Original_NeverPartial ==
    /\ data_opens \in {0, 1}
    /\ data_closes \in {0, 1}
    /\ (data_opens = 1) =>
          /\ \A i \in 1..Len(CsvLines(csv)) : CompleteLine(CsvLines(csv)[i])
          /\ csv = <<>> \/ CsvIsComplete

\* C7 amended: the results file is opened at most once and closed at most
\* once; once opened it is empty until the header write, and from then on
\* it holds the header and one complete line per completed run in run
\* order, except that a short header or row write, which is fatal, leaves
\* the bytes that write took as an unterminated last line.
C7_CompleteLinesOrCutLast ==
    /\ data_opens \in {0, 1}
    /\ data_closes \in {0, 1}
    /\ data_closes <= data_opens
    /\ (data_opens = 1 /\ "write_header" \notin did) => csv = <<>>
    /\ ("write_header" \in did) =>
          \/ failedOp \notin {"write_header", "write_row"} /\ CsvIsComplete
          \/ CsvIsCutByFailedWrite
    /\ Len(csv) = data_off \/ data_opens = 0

\* a row write took only part of the row, after complete rows
C7_Witness ==
    /\ Exited
    /\ failedOp = "write_row"
    /\ written \in 1..(Len(FormatRow(chunk_size, run + 1)) - 1)
    /\ CompletedRuns > Reps
    /\ ~CompleteLine(CsvLines(csv)[Len(CsvLines(csv))])

(* ------------------------------- C2 ------------------------------------ *)
\* C2 as stated: whenever the size of the test file differs from
\* FILE_SIZE, shorter or longer, no result row is recorded and the process
\* ends with status 1.
C2_Original_AnyOtherSizeAborts ==
    (fileSize # FILE_SIZE) =>
        /\ CompletedRuns = 0
        /\ Exited => exit_status = 1

\* C2 amended: whenever the test file is shorter than FILE_SIZE, no result
\* row is recorded, no run completes and the process can end with status 1
\* only; a longer test file is not rejected.
C2_ShorterFileAborts ==
    (fileSize < FILE_SIZE) =>
        /\ "write_row" \notin did
        /\ CompletedRuns = 0
        /\ pc \notin {"write_result", "close_data"}
        /\ Exited => exit_status = 1
        /\ data_opens = 1 => \E n \in 0..Len(header) : csv = Take(header, n)

\* a short test file was read to its end and the process ended on the
\* incomplete-read check
C2_Witness ==
    /\ fileSize \in 1..(FILE_SIZE - 1)
    /\ Exited
    /\ op = "check"
    /\ total_read = fileSize
    /\ exit_status = 1

(* ------------------------------- C3 ------------------------------------ *)
\* the read loop of the run has ended with fewer than FILE_SIZE bytes
LoopEndedShort ==
    /\ pc \in {"close_test", "check_total"}
    /\ total_read < FILE_SIZE

\* C3: once the read loop of a run has ended with fewer than FILE_SIZE
\* bytes, the results file holds exactly the rows of the runs completed
\* before, no step changes it any more, the only steps left are the close
\* and the check, and the process ends with status 1.
C3_IncompleteReadAborts ==
    /\ [](LoopEndedShort => CsvIsComplete)
    /\ []((Exited /\ failedOp = "read") =>
             /\ exit_status = 1
             /\ CsvIsComplete
             /\ total_read < FILE_SIZE)
    /\ [][LoopEndedShort =>
             /\ csv' = csv
             /\ run' = run
             /\ pc' \in {"check_total", "exit"}
             /\ pc' = "exit" => exit_status' = 1]_vars

\* a later run read part of the file and the process ended on the check
C3_Witness ==
    /\ Exited
    /\ op = "check"
    /\ failedOp = "read"
    /\ total_read \in 1..(FILE_SIZE - 1)
    /\ CompletedRuns > Reps

(* ------------------------------- C4 ------------------------------------ *)
AllOps == {"open_data", "write_header", "malloc", "open_test", "read",
           "close_test", "write_row", "close_data"}

\* C4: the process status is 0 exactly when no operation failed, and then
\* every operation of the sweep was performed and the results file was
\* closed; after any failure the status is 1; and once an operation has
\* failed it is not performed again.
C4_ExitStatus ==
    /\ [](IF Exited THEN exit_status \in {0, 1} ELSE exit_status = -1)
    /\ [](Exited => (exit_status = 0 <=> failedOp = "none"))
    /\ []((Exited /\ exit_status = 0) =>
             /\ did = AllOps
             /\ CompletedRuns = TotalRuns
             /\ data_opens = 1 /\ data_closes = 1
             /\ open_test_fds = 0)
    /\ [][failedOp # "none" =>
             /\ op' # failedOp
             /\ failedOp' = failedOp
             /\ pc' \in {"close_test", "check_total", "exit"}]_vars

\* the sweep succeeded but closing the results file failed
C4_Witness ==
    /\ Exited
    /\ failedOp = "close_data"
    /\ exit_status = 1
    /\ CompletedRuns = TotalRuns

(* ------------------------------- C5 ------------------------------------ *)
\* C5: if opening the results file fails, the process has ended with
\* status 1 and has done nothing else: no test file opened, no read, no
\* buffer, no header or row written, the file on disk untouched.
C5_OutputOpenFailure ==
    (failedOp = "open_data") =>
        /\ Exited
        /\ exit_status = 1
        /\ did = {"open_data"}
        /\ ~buffer
        /\ open_test_fds = 0
        /\ reads_in_run = 0
        /\ data_opens = 0 /\ data_off = 0
        /\ csv \in PriorContents

\* the open failed while the disk held an older results file
C5_Witness ==
    /\ failedOp = "open_data"
    /\ Exited
    /\ csv # <<>>

(* ------------------------------- C6 ------------------------------------ *)
\* C6: total_read stays within 0..FILE_SIZE and every request is of 1 to
\* chunk_size bytes; each read requests the smaller of chunk_size and the
\* bytes still wanted; the loop goes on exactly when the read returned
\* something and FILE_SIZE is not yet reached.
C6_ReadLoop ==
    /\ [](total_read \in 0..FILE_SIZE)
    /\ []("read" \in did => to_read \in 1..chunk_size)
    /\ [](pc = "read" => total_read < FILE_SIZE)
    /\ [][pc = "read" =>
             /\ to_read' = Min(chunk_size, FILE_SIZE - total_read)
             /\ total_read' - total_read \in 0..to_read'
             /\ pc' \in {"read", "close_test"}
             /\ pc' = "read" <=> /\ total_read' > total_read
                                 /\ total_read' < FILE_SIZE]_vars

\* a short read was followed by a request clamped to the bytes still wanted
C6_Witness ==
    /\ pc = "close_test"
    /\ total_read = FILE_SIZE
    /\ to_read < chunk_size
    /\ reads_in_run > 2
    /\ chunk_size < FILE_SIZE
    /\ reads_in_run * chunk_size > FILE_SIZE + chunk_size

(* ------------------------------- C8 ------------------------------------ *)
\* C8: at most one test descriptor is open at a time; one is open exactly
\* between the open of a run and its close, so none is open at the
\* incomplete-read check, at the row write, at the next open or at exit;
\* and after a failed close the process has ended with status 1 and the
\* results file holds no row for that run.
C8_TestDescriptor ==
    /\ open_test_fds \in {0, 1}
    /\ open_test_fds = 1 <=> pc \in {"read", "close_test"}
    /\ (failedOp = "close_test") =>
          /\ Exited
          /\ exit_status = 1
          /\ CsvIsComplete
          /\ Len(CsvLines(csv)) = CompletedRuns + 1

\* the close of a fully read test file failed in a later run
C8_Witness ==
    /\ failedOp = "close_test"
    /\ Exited
    /\ total_read = FILE_SIZE
    /\ run > 0

(* ------------------------------- C9 ------------------------------------ *)
\* C9: once the second run of the tool has opened the results file, the
\* file holds what the second run wrote and nothing else: it is empty
\* until the header write and then holds the header and the second run's
\* rows (the last one cut if its write was short), whatever the first run
\* left.
C9_SecondRunOverwrites ==
    (invocation = 2 /\ data_opens = 1) =>
        /\ Len(csv) = data_off
        /\ "write_header" \notin did => csv = <<>>
        /\ "write_header" \in did =>
              \/ failedOp \notin {"write_header", "write_row"} /\ CsvIsComplete
              \/ CsvIsCutByFailedWrite

\* the first run left a full sweep and the second ended with less
C9_Witness ==
    /\ invocation = 2
    /\ Exited
    /\ data_opens = 1
    /\ Len(CsvLines(first_csv)) = TotalRuns + 1
    /\ Len(csv) < Len(first_csv)
    /\ CompletedRuns >= 1

(* ------------------------------- C10 ----------------------------------- *)
\* C10: every iteration of the read loop adds at least one byte or leaves
\* the loop, so a run issues at most FILE_SIZE reads; a chunk size has at
\* most Reps runs; the sweep variable only grows, without overflow, and
\* stays within LARGEST_CHUNK + INCREMENTAL (with the sizes of the source
\* it runs from 8192 to 262144 in steps of 8192 and no increment
\* overflows an int); and the process ends.
C10_Terminates ==
    /\ [](reads_in_run <= FILE_SIZE)
    /\ [](run <= Reps)
    /\ [](incremental_chunk_size \in 0..(LARGEST_CHUNK + INCREMENTAL))
    /\ [](~AddOverflows(incremental_chunk_size, INCREMENTAL))
    /\ [](LET s == IncrementalSweep(INCREMENTAL_START_BYTES) IN
           /\ Len(s) * INCREMENTAL_BYTES = LARGEST_CHUNK_BYTES
           /\ \A i \in 1..Len(s) : s[i] = i * INCREMENTAL_BYTES
           /\ ~AddOverflows(s[Len(s)], INCREMENTAL_BYTES)
           /\ FILE_SIZE_BYTES <= INT_MAX)
    /\ [][(pc = "read" /\ pc' = "read") =>
             total_read' >= total_read + 1]_vars
    /\ [][incremental_chunk_size' # incremental_chunk_size =>
             incremental_chunk_size' > incremental_chunk_size]_vars
    /\ <>(Exited /\ exit_status \in {0, 1})

\* a whole sweep ran to its end with a run of FILE_SIZE one-byte reads
C10_Witness ==
    /\ Exited
    /\ exit_status = 0
    /\ reads_in_run = FILE_SIZE
    /\ incremental_chunk_size > LARGEST_CHUNK

=============================================================================
